---- MODULE Spec2Model ----
(***************************************************************************)
(* A model of roche's build orchestration (src/src/main.rs): the workspace *)
(* locator, the identity resolver, tag synthesis, Dockerfile rendering,    *)
(* the engine build invocation and the gen flow.                           *)
(*                                                                         *)
(* Text is modelled at character level: a Rust String is a sequence of     *)
(* one-character strings, so that split, lines, contains and str::replace  *)
(* are computed the way the standard library computes them.                *)
(***************************************************************************)
EXTENDS Naturals, Integers, Sequences, FiniteSets, TLC

VARIABLES pc, cmd, dirname, cwd, fs, tagArg, tag, dockerUsername, s,
          podmanoutput, identity, dir, spawned, unspawnable, buildimage, runtimeimage,
          tmp_docker_file, rerendered, childStdin, stdinClosed, childStdout,
          warned, imageargs, stdinPipe, written, stdoutPipe, stdoutClosed,
          childMode, childPhase, childOut

\* The pipes between the program and the engine child, and the child.
pipevars == <<stdinPipe, written, stdoutPipe, stdoutClosed, childMode,
              childPhase, childOut>>

vars == <<pc, cmd, dirname, cwd, fs, tagArg, tag, dockerUsername, s,
          podmanoutput, identity, dir, spawned, unspawnable, buildimage, runtimeimage,
          tmp_docker_file, rerendered, childStdin, stdinClosed, childStdout,
          warned, imageargs, pipevars>>

(***************************************************************************)
(* Bounds of the model.                                                    *)
(***************************************************************************)
\* Deepest working directory explored (number of path segments).
MaxDepth == 2
\* Most lines in an engine's output to the identity probes.
MaxLines == 2
\* Bytes a pipe between the program and the engine child holds.
PipeCap == 2
\* Longest Dockerfile and longest build output sent through the pipes.
MaxFile == 3
MaxOut == 3

(***************************************************************************)
(* Option<T>: None is the empty tuple, Some(x) the one-element tuple.      *)
(***************************************************************************)
None == <<>>
Some(x) == <<x>>
IsSome(o) == Len(o) = 1
Unwrap(o) == o[1]
unwrap_or(o, d) == IF IsSome(o) THEN o[1] ELSE d

(***************************************************************************)
(* String literals of the program.                                         *)
(***************************************************************************)
MAIN_SEPARATOR == "/"

SRC ==
    <<"s", "r", "c">>

APP ==
    <<"m", "y", "a", "p", "p">>

FUNCTIONS_RS ==
    <<"f", "u", "n", "c", "t", "i", "o", "n", "s", ".", "r", "s">>

LIB_RS_FILE ==
    <<"l", "i", "b", ".", "r", "s">>

ENV_FILE ==
    <<".", "e", "n", "v">>

DOCKERFILE ==
    <<"D", "o", "c", "k", "e", "r", "f", "i", "l", "e">>

DASH_T ==
    <<"-", "t">>

DEV_PREFIX ==
    <<"d", "e", "v", "-">>

TEST_PREFIX ==
    <<"t", "e", "s", "t", "-">>

RELEASE_PREFIX ==
    <<>>

USERNAME_MARK ==
    <<"U", "s", "e", "r", "n", "a", "m", "e">>

M_DEV_BASE_IMAGE ==
    <<"D", "E", "V", "_", "B", "A", "S", "E", "_", "I", "M", "A", "G", "E">>

M_TEST_BASE_IMAGE ==
    <<"T", "E", "S", "T", "_", "B", "A", "S", "E", "_", "I", "M", "A", "G",
    "E">>

M_BASE_IMAGE ==
    <<"B", "A", "S", "E", "_", "I", "M", "A", "G", "E">>

M_RUNTIME_IMAGE ==
    <<"R", "U", "N", "T", "I", "M", "E", "_", "I", "M", "A", "G", "E">>

M_INCLUDE_ENV ==
    <<"I", "N", "C", "L", "U", "D", "E", "_", "E", "N", "V">>

M_INCLUDE_ENV_SP ==
    <<"I", "N", "C", "L", "U", "D", "E", "_", "E", "N", "V", " ">>

M_ENV ==
    <<"#", "E", "N", "V">>

M_LIB_RS ==
    <<"#", "L", "I", "B", "_", "R", "S">>

M_TEST ==
    <<"#", "T", "E", "S", "T">>

R_INCLUDE_ENV ==
    <<"a", "p", "p", "-", "b", "u", "i", "l", "d", "/", "s", "r", "c", "/", ".",
    "e", "n", "v", "*">>

R_LIB_RS ==
    <<"C", "O", "P", "Y", " ", "l", "i", "b", ".", "r", "s", " ", "/", "a", "p",
    "p", "-", "b", "u", "i", "l", "d", "/", "s", "r", "c">>

R_TEST ==
    <<"R", "U", "N", " ", "c", "a", "r", "g", "o", " ", "t", "e", "s", "t", " ",
    "-", "-", "l", "i", "b", " ", "-", "-", "r", "e", "l", "e", "a", "s", "e">>

R_ENV ==
    <<"C", "O", "P", "Y", " ", ".", "e", "n", "v", " ", "/", "a", "p", "p", "-",
    "b", "u", "i", "l", "d", "/", "s", "r", "c">>

dev_build_image_default ==
    <<"q", "u", "a", "y", ".", "i", "o", "/", "r", "o", "c", "h", "e", "/", "d",
    "e", "v", "-", "d", "e", "f", "a", "u", "l", "t", ":", "1", ".", "4", ".",
    "0">>

test_build_image_default ==
    <<"q", "u", "a", "y", ".", "i", "o", "/", "r", "o", "c", "h", "e", "/", "d",
    "e", "v", "-", "d", "e", "f", "a", "u", "l", "t", ":", "1", ".", "4", ".",
    "0">>

release_build_image_default ==
    <<"q", "u", "a", "y", ".", "i", "o", "/", "r", "o", "c", "h", "e", "/", "d",
    "e", "f", "a", "u", "l", "t", ":", "1", ".", "4", ".", "0">>

runtime_image_default ==
    <<"q", "u", "a", "y", ".", "i", "o", "/", "r", "o", "c", "h", "e", "/", "a",
    "l", "p", "i", "n", "e", "-", "l", "i", "b", "g", "c", "c", ":", "3", ".",
    "1", "2">>

LOCAL_BUILD ==
    <<"F", "R", "O", "M", " ", "D", "E", "V", "_", "B", "A", "S", "E", "_", "I",
    "M", "A", "G", "E", "\n", "F", "R", "O", "M", " ", "R", "U", "N", "T", "I",
    "M", "E", "_", "I", "M", "A", "G", "E", "\n", "C", "O", "P", "Y", " ", "I",
    "N", "C", "L", "U", "D", "E", "_", "E", "N", "V", " ", "/", "\n">>

TEST_BUILD ==
    <<"F", "R", "O", "M", " ", "T", "E", "S", "T", "_", "B", "A", "S", "E", "_",
    "I", "M", "A", "G", "E", "\n", "C", "O", "P", "Y", " ", "I", "N", "C", "L",
    "U", "D", "E", "_", "E", "N", "V", " ", "/", "\n">>

RELEASE_BUILD ==
    <<"F", "R", "O", "M", " ", "B", "A", "S", "E", "_", "I", "M", "A", "G", "E",
    "\n", "#", "L", "I", "B", "_", "R", "S", "\n", "#", "E", "N", "V", "\n",
    "#", "T", "E", "S", "T", "\n", "F", "R", "O", "M", " ", "R", "U", "N", "T",
    "I", "M", "E", "_", "I", "M", "A", "G", "E", "\n">>

SLASH_FUNCTIONS_RS ==
    <<"/", "f", "u", "n", "c", "t", "i", "o", "n", "s", ".", "r", "s">>

SLASH_SRC_FUNCTIONS_RS ==
    <<"/", "s", "r", "c", "/", "f", "u", "n", "c", "t", "i", "o", "n", "s", ".",
    "r", "s">>

SLASH_SRC ==
    <<"/", "s", "r", "c">>

SLASH_LIB_RS ==
    <<"/", "l", "i", "b", ".", "r", "s">>

BUILD_LOG ==
    <<"S", "u", "c", "c", "e", "s", "s", "f", "u", "l", "l", "y", " ", "b", "u",
    "i", "l", "t", "\n">>

OLD_CONTENT ==
    <<"F", "R", "O", "M", " ", "o", "l", "d", "\n">>

USER_TAG ==
    <<"m", "e", "/", "x">>

ALICE ==
    <<"a", "l", "i", "c", "e">>

BOB ==
    <<"b", "o", "b">>

DOCKER_LINE_USER ==
    <<" ", "U", "s", "e", "r", "n", "a", "m", "e", ":", " ", "a", "l", "i", "c",
    "e">>

DOCKER_LINE_OTHER ==
    <<" ", "N", "a", "m", "e", ":", " ", "h", "o", "s", "t">>

FLAG_IMAGE ==
    <<"r", "u", "s", "t", ":", "1">>

ENV_IMAGE ==
    <<"i", "m", "g", ":", "e">>

MARKER_IMAGE ==
    <<"r", "u", "s", "t", ":", "B", "A", "S", "E", "_", "I", "M", "A", "G",
    "E">>

COMMENT_IMAGE ==
    <<"x", "#", "E", "N", "V">>

BuildOutputs == {BUILD_LOG}

(***************************************************************************)
(* String functions of the Rust standard library, as they compute.         *)
(***************************************************************************)
\* str::starts_with at offset i: pat occurs in str at position i.
MatchAt(str, pat, i) ==
    /\ i + Len(pat) - 1 <= Len(str)
    /\ \A k \in 1..Len(pat) : str[i + k - 1] = pat[k]

\* str::contains
Contains(str, pat) == \E i \in 1..(Len(str) + 1) : MatchAt(str, pat, i)

\* The smallest member of a non-empty set of numbers.
Min(S) == CHOOSE x \in S : \A y \in S : x <= y
Max(S) == CHOOSE x \in S : \A y \in S : x >= y

\* str::replace for a non-empty pattern: every non-overlapping match,
\* leftmost first, in one pass; the replacement text is never rescanned.
RECURSIVE ReplaceFrom(_, _, _, _)
ReplaceFrom(str, pat, to, from) ==
    LET matches == {i \in from..(Len(str) - Len(pat) + 1) : MatchAt(str, pat, i)}
    IN  IF matches = {} THEN SubSeq(str, from, Len(str))
        ELSE SubSeq(str, from, Min(matches) - 1) \o to
             \o ReplaceFrom(str, pat, to, Min(matches) + Len(pat))

replace(str, pat, to) == ReplaceFrom(str, pat, to, 1)

\* str::split(char): the pieces between separators, empty pieces included.
RECURSIVE SplitFrom(_, _, _)
SplitFrom(str, c, from) ==
    LET seps == {i \in from..Len(str) : str[i] = c}
    IN  IF seps = {} THEN <<SubSeq(str, from, Len(str))>>
        ELSE <<SubSeq(str, from, Min(seps) - 1)>>
             \o SplitFrom(str, c, Min(seps) + 1)

split(str, c) == SplitFrom(str, c, 1)

\* str::lines: split on "\n", a trailing empty line is not yielded and a
\* trailing "\r" of a line is stripped.
StripCR(line) ==
    IF Len(line) > 0 /\ line[Len(line)] = "\r"
    THEN SubSeq(line, 1, Len(line) - 1)
    ELSE line

lines(str) ==
    LET raw == split(str, "\n")
        kept == IF raw[Len(raw)] = <<>> THEN SubSeq(raw, 1, Len(raw) - 1)
                ELSE raw
    IN  [k \in 1..Len(kept) |-> StripCR(kept[k])]

\* char::is_whitespace, for the characters the model uses.
IsWhitespace(ch) == ch \in {" ", "\t", "\n", "\r"}

\* str::split_whitespace().last().unwrap_or_default(): the last maximal
\* run of non-whitespace characters, or the empty string.
split_whitespace_last(str) ==
    LET solid == {i \in 1..Len(str) : ~IsWhitespace(str[i])}
    IN  IF solid = {} THEN <<>>
        ELSE LET end == Max(solid)
                 gaps == {i \in 1..end : IsWhitespace(str[i])}
                 start == IF gaps = {} THEN 1 ELSE Max(gaps) + 1
             IN  SubSeq(str, start, end)

\* Concatenation of a sequence of strings.
RECURSIVE Concat(_)
Concat(ss) == IF ss = <<>> THEN <<>> ELSE Head(ss) \o Concat(Tail(ss))

(***************************************************************************)
(* Paths.  The operating system holds the working directory as a list of   *)
(* segments below the root; the program only sees it as text.              *)
(***************************************************************************)
\* PathBuf::to_str / Path::display of an absolute path: the root is "/",
\* every other directory is "/" seg "/" seg ... with no trailing separator.
RECURSIVE JoinSegs(_)
JoinSegs(segs) ==
    IF segs = <<>> THEN <<>>
    ELSE <<MAIN_SEPARATOR>> \o Head(segs) \o JoinSegs(Tail(segs))

display(segs) == IF segs = <<>> THEN <<MAIN_SEPARATOR>> ELSE JoinSegs(segs)

\* Path resolution of an absolute path text by the operating system:
\* repeated separators collapse, so the segments are the non-empty pieces.
RECURSIVE NonEmpty(_)
NonEmpty(ps) ==
    IF ps = <<>> THEN <<>>
    ELSE IF Head(ps) = <<>> THEN NonEmpty(Tail(ps))
         ELSE <<Head(ps)>> \o NonEmpty(Tail(ps))

Resolve(text) == NonEmpty(split(text, MAIN_SEPARATOR))

\* Path::new(text).exists() for an absolute path text.
exists(files, text) == Resolve(text) \in DOMAIN files

\* Path::new(name).exists() for a relative file name: resolved against the
\* current working directory.
exists_rel(files, wd, name) == Append(wd, name) \in DOMAIN files

(***************************************************************************)
(* Identity Resolver: the parsing of the engines' answers.                 *)
(***************************************************************************)
\* getdockerlogin, the loop over the lines of `docker info`: every line
\* containing "Username" overwrites username with its last token.
RECURSIVE ScanUsername(_, _)
ScanUsername(ls, username) ==
    IF ls = <<>> THEN username
    ELSE IF Contains(Head(ls), USERNAME_MARK)
         THEN ScanUsername(Tail(ls), split_whitespace_last(Head(ls)))
         ELSE ScanUsername(Tail(ls), username)

docker_username(out) == ScanUsername(lines(out), <<>>)

\* A variant of podman_username that takes the last line of the output.
podman_username_last(out) ==
    LET ls == lines(out) IN IF ls = <<>> THEN <<>> ELSE ls[Len(ls)]

\* getpodmanlogin: podmanoutput.lines().next().unwrap_or_default()
podman_username(out) ==
    LET ls == lines(out) IN IF ls = <<>> THEN <<>> ELSE ls[1]

\* The tail of both probes: an empty username is no identity.
username_option(username) == IF username = <<>> THEN None ELSE Some(username)

(***************************************************************************)
(* Tag Synthesizer.                                                        *)
(***************************************************************************)
\* A variant of base_dir without the src case.
base_dir_last(wd) ==
    LET pieces == split(display(wd), MAIN_SEPARATOR) IN pieces[Len(pieces)]

\* generateimagetag, the base label: the last piece of the working
\* directory's text, or the piece before it when the last one is "src".
base_dir(wd) ==
    LET pieces == split(display(wd), MAIN_SEPARATOR)
        last == pieces[Len(pieces)]
    IN  IF last = SRC THEN pieces[Len(pieces) - 1] ELSE last

\* A variant of format_tag that leaves out the "/" after the identity.
format_tag_no_slash(login, buildtype, d) ==
    IF IsSome(login) THEN Unwrap(login) \o buildtype \o d ELSE buildtype \o d

\* generateimagetag, the two format! calls.
format_tag(login, buildtype, d) ==
    IF IsSome(login)
    THEN Unwrap(login) \o <<"/">> \o buildtype \o d
    ELSE buildtype \o d

\* The prefix each flow hands to generateimagetag.
buildtype_of(c) ==
    CASE c = "build" -> DEV_PREFIX
      [] c = "test" -> TEST_PREFIX
      [] OTHER -> RELEASE_PREFIX

(***************************************************************************)
(* Template Renderer: each flow's sequence of str::replace calls, applied  *)
(* to a text.                                                              *)
(***************************************************************************)
\* A variant of include_env that leaves the text alone when .env is absent.
include_env_keep(text, envPresent) ==
    IF envPresent THEN replace(text, M_INCLUDE_ENV, R_INCLUDE_ENV) ELSE text

include_env(text, envPresent) ==
    IF envPresent
    THEN replace(text, M_INCLUDE_ENV, R_INCLUDE_ENV)
    ELSE replace(text, M_INCLUDE_ENV_SP, <<>>)

\* A variant of lib_rs_and_env that keeps the #ENV comment above the
\* directive it inserts.
lib_rs_and_env_keep(text, libPresent, envPresent) ==
    LET t1 == IF libPresent
              THEN replace(replace(text, M_LIB_RS, R_LIB_RS), M_TEST, R_TEST)
              ELSE text
    IN  IF envPresent THEN replace(t1, M_ENV, M_ENV \o <<"\n">> \o R_ENV) ELSE t1

lib_rs_and_env(text, libPresent, envPresent) ==
    LET t1 == IF libPresent
              THEN replace(replace(text, M_LIB_RS, R_LIB_RS), M_TEST, R_TEST)
              ELSE text
    IN  IF envPresent THEN replace(t1, M_ENV, R_ENV) ELSE t1

render_build(text, b, r, envPresent) ==
    include_env(replace(replace(text, M_DEV_BASE_IMAGE, b),
                        M_RUNTIME_IMAGE, r), envPresent)

render_test(text, b, envPresent) ==
    include_env(replace(text, M_TEST_BASE_IMAGE, b), envPresent)

render_release(text, b, r, libPresent, envPresent) ==
    replace(lib_rs_and_env(replace(text, M_BASE_IMAGE, b),
                           libPresent, envPresent),
            M_RUNTIME_IMAGE, r)

\* A variant of render_gen that forgets the runtime image.
render_gen_no_runtime(text, b, r, libPresent, envPresent) ==
    lib_rs_and_env(replace(text, M_BASE_IMAGE, b), libPresent, envPresent)

render_gen(text, b, r, libPresent, envPresent) ==
    lib_rs_and_env(replace(replace(text, M_BASE_IMAGE, b),
                           M_RUNTIME_IMAGE, r),
                   libPresent, envPresent)

\* The template each flow starts from.
template_of(c) ==
    CASE c = "build" -> LOCAL_BUILD
      [] c = "test" -> TEST_BUILD
      [] OTHER -> RELEASE_BUILD

\* One flow's whole substitution sequence.
render(c, text, b, r, libPresent, envPresent) ==
    CASE c = "build" -> render_build(text, b, r, envPresent)
      [] c = "test" -> render_test(text, b, envPresent)
      [] c = "release" -> render_release(text, b, r, libPresent, envPresent)
      [] OTHER -> render_gen(text, b, r, libPresent, envPresent)

\* The image defaults: flag, else environment variable, else built-in.
build_image_default(c) ==
    CASE c = "build" -> dev_build_image_default
      [] c = "test" -> test_build_image_default
      [] OTHER -> release_build_image_default

resolve_image(flag, envvar, default) == unwrap_or(flag, unwrap_or(envvar, default))
(***************************************************************************)
(* Inputs of one invocation, drawn from small sets.                        *)
(***************************************************************************)
\* The subcommands of the build orchestration (init is out of its scope).
Cmds == {"build", "test", "release", "gen"}
BuildCmds == {"build", "test", "release"}

\* Working directories: every path of at most MaxDepth segments.
SegNames == {APP, SRC}
Dirs == UNION {[1..n -> SegNames] : n \in 0..MaxDepth}

\* The files a flow looks at, below working directory d: no other file can
\* change what the invocation does.
ProbedFiles(c, d) ==
    CASE c = "build" ->
           {Append(d, FUNCTIONS_RS), d \o <<SRC, FUNCTIONS_RS>>,
            Append(d, ENV_FILE), d \o <<SRC, ENV_FILE>>}
      [] c \in {"test", "release"} ->
           {Append(d, FUNCTIONS_RS), d \o <<SRC, FUNCTIONS_RS>>,
            Append(d, ENV_FILE), d \o <<SRC, ENV_FILE>>,
            Append(d, LIB_RS_FILE), d \o <<SRC, LIB_RS_FILE>>}
      [] OTHER ->
           {Append(d, ENV_FILE), Append(d, LIB_RS_FILE), Append(d, DOCKERFILE)}

\* File systems: any subset of those files exists; a file's content matters
\* only for a Dockerfile, which holds some text the user wrote.
FileSystems(c, d) ==
    {[p \in ps |-> IF p[Len(p)] = DOCKERFILE THEN OLD_CONTENT ELSE <<>>] :
        ps \in SUBSET ProbedFiles(c, d)}

\* --tag: omitted, given empty, or given.
TagArgs == {None, Some(<<>>), Some(USER_TAG)}

\* DOCKER_USERNAME: unset, set empty, or set.
EnvUsernames == {None, Some(<<>>), Some(ALICE)}

\* Outputs of an engine: at most MaxLines lines, each ended by a newline.
OutputsOf(lineSet) ==
    UNION {{Concat([k \in 1..n |-> ls[k] \o <<"\n">>]) : ls \in [1..n -> lineSet]} :
              n \in 0..MaxLines}

DockerOutputs == OutputsOf({DOCKER_LINE_USER, DOCKER_LINE_OTHER})
PodmanOutputs == OutputsOf({BOB, <<>>})

\* An image's two inputs, the flag (--buildimage, --libtestimage, --runtime)
\* and the environment variable: neither is given, or both are.  RenderSpec
\* below explores more image values, on the renderer alone.
ImageInputs == {<<None, None>>, <<Some(FLAG_IMAGE), Some(ENV_IMAGE)>>}

\* What the invocation was given for its two images: the value of the build
\* image's flag (--buildimage, --libtestimage) and of its environment
\* variable (dev_build_image, test_build_image, release_build_image), and
\* the same for the runtime image (--runtimeimage, runtime_image).  b and r
\* are pairs <<flag, variable>> of options.
image_args(b, r) ==
    [buildflag |-> b[1], buildenv |-> b[2],
     runtimeflag |-> r[1], runtimeenv |-> r[2]]
NoImageArgs == image_args(<<None, None>>, <<None, None>>)

(***************************************************************************)
(* The state machine: one invocation of the program.                       *)
(***************************************************************************)
\* No engine build child yet, hence no pipes.
PipeBlank ==
    /\ stdinPipe = <<>>
    /\ written = 0
    /\ stdoutPipe = <<>>
    /\ stdoutClosed = FALSE
    /\ childMode = "drain_first"
    /\ childPhase = "reading"
    /\ childOut = <<>>

Blank ==
    /\ tagArg = None
    /\ tag = <<>>
    /\ dockerUsername = None
    /\ s = <<>>
    /\ podmanoutput = <<>>
    /\ identity = None
    /\ dir = <<>>
    /\ spawned = <<>>
    /\ unspawnable = {}
    /\ tmp_docker_file = <<>>
    /\ rerendered = <<>>
    /\ childStdin = <<>>
    /\ stdinClosed = FALSE
    /\ childStdout = <<>>
    /\ warned = FALSE
    /\ PipeBlank

Init ==
    /\ pc = "main"
    /\ cmd \in Cmds
    /\ dirname \in Dirs
    /\ cwd = dirname
    /\ fs \in FileSystems(cmd, dirname)
    /\ buildimage = <<>>
    /\ runtimeimage = <<>>
    /\ imageargs = NoImageArgs
    /\ Blank

\* A variant of locate that looks for lib.rs in the directory the program
\* started in, whether or not it moved to src.
locate_lib_in_dirname(files, d, c) ==
    LET here == exists(files, display(d) \o SLASH_FUNCTIONS_RS)
        insrc == exists(files, display(d) \o SLASH_SRC_FUNCTIONS_RS)
        srcpath == Resolve(display(d) \o SLASH_SRC)
        newcwd == IF here THEN d ELSE srcpath
        lib == exists(files, display(d) \o SLASH_LIB_RS)
    IN  IF ~here /\ ~insrc THEN [cwd |-> d, pc |-> "exit1"]
        ELSE IF c = "test" /\ ~lib THEN [cwd |-> newcwd, pc |-> "exit1"]
        ELSE [cwd |-> newcwd, pc |-> "tag"]

\* A variant of locate that moves to src whenever functions.rs is there.
locate_prefers_src(files, d, c) ==
    LET here == exists(files, display(d) \o SLASH_FUNCTIONS_RS)
        insrc == exists(files, display(d) \o SLASH_SRC_FUNCTIONS_RS)
        srcpath == Resolve(display(d) \o SLASH_SRC)
        newcwd == IF insrc THEN srcpath ELSE d
        lib == exists(files, display(newcwd) \o SLASH_LIB_RS)
    IN  IF ~here /\ ~insrc THEN [cwd |-> d, pc |-> "exit1"]
        ELSE IF c = "test" /\ ~lib THEN [cwd |-> newcwd, pc |-> "exit1"]
        ELSE [cwd |-> newcwd, pc |-> "tag"]

\* Workspace Locator of the build, test and release flows: functions.rs in
\* the current directory, else in src (and the process moves there), else
\* exit(1); the test flow then wants lib.rs in the resulting directory.
\* The result is the working directory and where the program continues.
locate(files, d, c) ==
    LET here == exists(files, display(d) \o SLASH_FUNCTIONS_RS)
        insrc == exists(files, display(d) \o SLASH_SRC_FUNCTIONS_RS)
        srcpath == Resolve(display(d) \o SLASH_SRC)
        newcwd == IF here THEN d ELSE srcpath
        lib == exists(files, display(newcwd) \o SLASH_LIB_RS)
    IN  IF ~here /\ ~insrc THEN [cwd |-> d, pc |-> "exit1"]
        ELSE IF c = "test" /\ ~lib THEN [cwd |-> newcwd, pc |-> "exit1"]
        ELSE [cwd |-> newcwd, pc |-> "tag"]

Locate ==
    /\ pc = "main"
    /\ cmd \in BuildCmds
    /\ cwd' = locate(fs, dirname, cmd).cwd
    /\ pc' = locate(fs, dirname, cmd).pc
    /\ UNCHANGED <<cmd, dirname, fs, tagArg, tag, dockerUsername, s,
                   podmanoutput, identity, dir, spawned, unspawnable,
                   buildimage, runtimeimage, tmp_docker_file, rerendered,
                   childStdin, stdinClosed, childStdout, warned,
                   imageargs, pipevars>>

\* A variant of no_tag_given that only looks at the "-t" the tag starts with.
no_tag_given_prefix(t) == SubSeq(t, 1, Len(DASH_T)) = DASH_T

\* if tag == "-t": no tag was given and one is synthesized.
no_tag_given(t) == t = DASH_T

\* Tag resolution up to the call of getlogin: "-t" and the value of --tag;
\* when that is exactly "-t", generateimagetag starts and takes the base
\* label from the working directory.
ReadTag ==
    /\ pc = "tag"
    /\ \E t \in TagArgs :
         /\ tagArg' = t
         /\ tag' = DASH_T \o unwrap_or(t, <<>>)
         /\ IF no_tag_given(tag')
            THEN /\ dir' = base_dir(cwd)
                 /\ pc' = "getdockerlogin"
            ELSE /\ dir' = dir
                 /\ pc' = "render"
    /\ UNCHANGED <<cmd, dirname, cwd, fs, dockerUsername, s, podmanoutput,
                   identity, spawned, unspawnable, buildimage, runtimeimage,
                   tmp_docker_file, rerendered, childStdin, stdinClosed,
                   childStdout, warned,
                   imageargs, pipevars>>

\* getdockerlogin: DOCKER_USERNAME if set, else `docker info` is spawned
\* (exit(1) if it cannot be) and its output scanned for a Username line.
getdockerlogin ==
    /\ pc = "getdockerlogin"
    /\ \E u \in EnvUsernames :
         /\ dockerUsername' = u
         /\ IF IsSome(u)
            THEN /\ identity' = u
                 /\ pc' = "login_ret"
                 /\ UNCHANGED <<s, spawned, unspawnable>>
            ELSE \E spawnOk \in BOOLEAN :
                   IF ~spawnOk
                   THEN /\ pc' = "exit1"
                        /\ unspawnable' = unspawnable \cup {"docker info"}
                        /\ UNCHANGED <<s, spawned, identity>>
                   ELSE /\ spawned' = Append(spawned, "docker info")
                        /\ unspawnable' = unspawnable
                        /\ \E readOk \in BOOLEAN :
                             IF ~readOk
                             THEN /\ pc' = "panic"
                                  /\ UNCHANGED <<s, identity>>
                             ELSE \E out \in DockerOutputs :
                                    /\ s' = out
                                    /\ identity' =
                                         username_option(docker_username(out))
                                    /\ pc' = IF IsSome(identity')
                                             THEN "login_ret"
                                             ELSE "getpodmanlogin"
    /\ UNCHANGED <<cmd, dirname, cwd, fs, tagArg, tag, podmanoutput, dir,
                   buildimage, runtimeimage, tmp_docker_file, rerendered,
                   childStdin, stdinClosed, childStdout, warned,
                   imageargs, pipevars>>

\* getpodmanlogin, reached from getlogin when getdockerlogin returned None:
\* `podman login --get-login` is spawned (exit(1) if it cannot be) and the
\* first line of its output is the username.
getpodmanlogin ==
    /\ pc = "getpodmanlogin"
    /\ \E spawnOk \in BOOLEAN :
         IF ~spawnOk
         THEN /\ pc' = "exit1"
              /\ unspawnable' = unspawnable \cup {"podman login --get-login"}
              /\ UNCHANGED <<podmanoutput, spawned, identity>>
         ELSE /\ spawned' = Append(spawned, "podman login --get-login")
              /\ unspawnable' = unspawnable
              /\ \E readOk \in BOOLEAN :
                   IF ~readOk
                   THEN /\ pc' = "panic"
                        /\ UNCHANGED <<podmanoutput, identity>>
                   ELSE \E out \in PodmanOutputs :
                          /\ podmanoutput' = out
                          /\ identity' = username_option(podman_username(out))
                          /\ pc' = "login_ret"
    /\ UNCHANGED <<cmd, dirname, cwd, fs, tagArg, tag, dockerUsername, s,
                   dir, buildimage, runtimeimage, tmp_docker_file,
                   rerendered, childStdin, stdinClosed, childStdout, warned,
                   imageargs, pipevars>>

\* generateimagetag after getlogin returned, and the caller's format!:
\* the tag is "-t" and the synthesized name.  The probes' outputs are
\* locals of the functions that have returned.
generateimagetag ==
    /\ pc = "login_ret"
    /\ tag' = DASH_T \o format_tag(identity, buildtype_of(cmd), dir)
    /\ s' = <<>>
    /\ podmanoutput' = <<>>
    /\ pc' = "render"
    /\ UNCHANGED <<cmd, dirname, cwd, fs, tagArg, dockerUsername, identity,
                   dir, spawned, unspawnable, buildimage, runtimeimage,
                   tmp_docker_file,
                   rerendered, childStdin, stdinClosed, childStdout, warned,
                   imageargs, pipevars>>
\* File::create(name) and write_all(text) in working directory wd.
write_file(files, wd, name, text) ==
    [p \in DOMAIN files \cup {Append(wd, name)} |->
        IF p = Append(wd, name) THEN text ELSE files[p]]

\* Template Renderer of the build, test and release flows: the images are
\* resolved (flag, else environment variable, else default) and the flow's
\* replacements are applied to its template; .env and lib.rs are looked up
\* in the working directory.
Render ==
    /\ pc = "render"
    /\ \E b \in ImageInputs, r \in ImageInputs :
         /\ imageargs' = image_args(b, IF cmd = "test" THEN <<None, None>>
                                       ELSE r)
         /\ buildimage' = resolve_image(b[1], b[2], build_image_default(cmd))
         /\ runtimeimage' = IF cmd = "test" THEN <<>>
                            ELSE resolve_image(r[1], r[2], runtime_image_default)
         /\ tmp_docker_file' =
              render(cmd, template_of(cmd), buildimage', runtimeimage',
                     exists_rel(fs, cwd, LIB_RS_FILE),
                     exists_rel(fs, cwd, ENV_FILE))
    /\ pc' = "spawn"
    /\ UNCHANGED <<cmd, dirname, cwd, fs, tagArg, tag, dockerUsername, s,
                   podmanoutput, identity, dir, spawned, unspawnable, rerendered,
                   childStdin, stdinClosed, childStdout, warned, pipevars>>

\* Build Invoker, the spawn of `docker build <tag> -f- .`: exit(1) when the
\* engine cannot be spawned.
SpawnBuild ==
    /\ pc = "spawn"
    /\ \E spawnOk \in BOOLEAN :
         IF spawnOk
         THEN /\ spawned' = Append(spawned, "docker build")
              /\ unspawnable' = unspawnable
              /\ pc' = "write"
         ELSE /\ spawned' = spawned
              /\ unspawnable' = unspawnable \cup {"docker build"}
              /\ pc' = "exit1"
    /\ UNCHANGED <<cmd, dirname, cwd, fs, tagArg, tag, dockerUsername, s,
                   podmanoutput, identity, dir, buildimage, runtimeimage,
                   tmp_docker_file, rerendered, childStdin, stdinClosed,
                   childStdout, warned,
                   imageargs, pipevars>>

\* Build Invoker, write_all of the Dockerfile to the child's stdin; the
\* ChildStdin is a temporary of the match and is dropped, hence closed,
\* when the match ends.  A failed write panics.
WriteStdin ==
    /\ pc = "write"
    /\ \E writeOk \in BOOLEAN :
         IF writeOk
         THEN /\ childStdin' = tmp_docker_file
              /\ pc' = "read"
         ELSE /\ childStdin' = childStdin
              /\ pc' = "panic"
    /\ stdinClosed' = TRUE
    /\ UNCHANGED <<cmd, dirname, cwd, fs, tagArg, tag, dockerUsername, s,
                   podmanoutput, identity, dir, spawned, unspawnable,
                   buildimage, runtimeimage, tmp_docker_file, rerendered,
                   childStdout, warned,
                   imageargs, pipevars>>

\* Build Invoker, read_to_string of the child's stdout to its end, then the
\* flow and main return Ok.  A failed read panics.
ReadStdout ==
    /\ pc = "read"
    /\ \E readOk \in BOOLEAN :
         IF readOk
         THEN /\ \E out \in BuildOutputs : childStdout' = out
              /\ pc' = "done"
         ELSE /\ childStdout' = childStdout
              /\ pc' = "panic"
    /\ UNCHANGED <<cmd, dirname, cwd, fs, tagArg, tag, dockerUsername, s,
                   podmanoutput, identity, dir, spawned, unspawnable,
                   buildimage, runtimeimage, tmp_docker_file, rerendered,
                   childStdin, stdinClosed, warned,
                   imageargs, pipevars>>

\* A variant of dockerfile_exists that looks under src.
dockerfile_exists_in_src(files, wd) ==
    exists_rel(files, Append(wd, SRC), DOCKERFILE)

\* if !Path::new("Dockerfile").exists(), the guard of the gen flow's write.
dockerfile_exists(files, wd) == exists_rel(files, wd, DOCKERFILE)

\* The gen flow: the release template is rendered and written to a file
\* named Dockerfile unless one exists, in which case a warning is printed;
\* a failing File::create or write_all makes main return the error.
Gen ==
    /\ pc = "main"
    /\ cmd = "gen"
    /\ \E b \in ImageInputs, r \in ImageInputs :
         /\ imageargs' = image_args(b, r)
         /\ buildimage' = resolve_image(b[1], b[2], release_build_image_default)
         /\ runtimeimage' = resolve_image(r[1], r[2], runtime_image_default)
         /\ tmp_docker_file' =
              render_gen(RELEASE_BUILD, buildimage', runtimeimage',
                         exists_rel(fs, cwd, LIB_RS_FILE),
                         exists_rel(fs, cwd, ENV_FILE))
    /\ IF ~dockerfile_exists(fs, cwd)
       THEN /\ warned' = FALSE
            /\ \E createOk \in BOOLEAN, writeOk \in BOOLEAN :
                 IF ~createOk
                 THEN /\ fs' = fs
                      /\ pc' = "err"
                 ELSE IF ~writeOk
                 THEN /\ fs' = write_file(fs, cwd, DOCKERFILE, <<>>)
                      /\ pc' = "err"
                 ELSE /\ fs' = write_file(fs, cwd, DOCKERFILE, tmp_docker_file')
                      /\ pc' = "done"
       ELSE /\ warned' = TRUE
            /\ fs' = fs
            /\ pc' = "done"
    /\ UNCHANGED <<cmd, dirname, cwd, tagArg, tag, dockerUsername, s,
                   podmanoutput, identity, dir, spawned, unspawnable,
                   rerendered, childStdin, stdinClosed, childStdout, pipevars>>

\* The process's exit status once it has ended: 0 from main returning Ok,
\* 1 from process::exit(1) or main returning Err, 101 from a panic.
Ended == pc \in {"done", "exit1", "err", "panic"}
ExitStatus ==
    CASE pc = "done" -> 0
      [] pc \in {"exit1", "err"} -> 1
      [] pc = "panic" -> 101
      [] OTHER -> -1

Next ==
    \/ Locate
    \/ ReadTag
    \/ getdockerlogin
    \/ getpodmanlogin
    \/ generateimagetag
    \/ Render
    \/ SpawnBuild
    \/ WriteStdin
    \/ ReadStdout
    \/ Gen

Spec == Init /\ [][Next]_vars

(***************************************************************************)
(* The renderer alone: a flow's substitutions applied to its template, and *)
(* then once more to the result, for every flow, image and file presence.  *)
(***************************************************************************)
\* Image values: the defaults, an ordinary image, an image whose tag is the
\* text of a marker, and an image holding a comment marker.
RenderImages(c) ==
    {build_image_default(c), runtime_image_default, FLAG_IMAGE, MARKER_IMAGE,
     COMMENT_IMAGE}

RenderInit ==
    /\ pc = "render"
    /\ cmd \in Cmds
    /\ dirname = <<APP>>
    /\ cwd = dirname
    /\ fs \in FileSystems("gen", dirname)
    /\ buildimage \in RenderImages(cmd)
    /\ runtimeimage \in RenderImages(cmd)
    /\ imageargs = NoImageArgs
    /\ unspawnable = {}
    /\ Blank

\* The flow's replacements on its template.
RenderOnce ==
    /\ pc = "render"
    /\ tmp_docker_file' =
         render(cmd, template_of(cmd), buildimage, runtimeimage,
                exists_rel(fs, cwd, LIB_RS_FILE), exists_rel(fs, cwd, ENV_FILE))
    /\ pc' = "rendered"
    /\ UNCHANGED <<cmd, dirname, cwd, fs, tagArg, tag, dockerUsername, s,
                   podmanoutput, identity, dir, spawned, unspawnable,
                   buildimage, runtimeimage, rerendered, childStdin,
                   stdinClosed, childStdout, warned,
                   imageargs, pipevars>>

\* The same replacements on the rendered text.
RenderAgain ==
    /\ pc = "rendered"
    /\ rerendered' =
         render(cmd, tmp_docker_file, buildimage, runtimeimage,
                exists_rel(fs, cwd, LIB_RS_FILE), exists_rel(fs, cwd, ENV_FILE))
    /\ pc' = "rerendered"
    /\ UNCHANGED <<cmd, dirname, cwd, fs, tagArg, tag, dockerUsername, s,
                   podmanoutput, identity, dir, spawned, unspawnable,
                   buildimage, runtimeimage, tmp_docker_file, childStdin,
                   stdinClosed, childStdout, warned,
                   imageargs, pipevars>>

RenderNext ==
    \/ RenderOnce
    \/ RenderAgain

RenderSpec == RenderInit /\ [][RenderNext]_vars

(***************************************************************************)
(* Image resolution alone: every combination of a flag given (empty or     *)
(* not) or omitted and an environment variable set (empty or not) or       *)
(* unset, for both images and every flow.                                  *)
(***************************************************************************)
\* A flag's value: omitted, given empty (--buildimage ""), or given.
FlagValues == {None, Some(<<>>), Some(FLAG_IMAGE)}
\* A variable's value: unset, set to the empty string (env::var is then
\* Ok("")), or set.
EnvValues == {None, Some(<<>>), Some(ENV_IMAGE)}

ImageInit ==
    /\ pc = "images"
    /\ cmd \in Cmds
    /\ dirname = <<APP>>
    /\ cwd = dirname
    /\ fs = [p \in {Append(dirname, FUNCTIONS_RS)} |-> <<>>]
    /\ buildimage = <<>>
    /\ runtimeimage = <<>>
    /\ \E bf \in FlagValues, be \in EnvValues :
         \E rf \in IF cmd = "test" THEN {None} ELSE FlagValues,
            re \in IF cmd = "test" THEN {None} ELSE EnvValues :
           imageargs = image_args(<<bf, be>>, <<rf, re>>)
    /\ Blank

\* let buildimage = ..value_of(flag).unwrap_or(variable.as_str()) and the
\* same for runtimeimage; the test flow has a build image only.
ResolveImages ==
    /\ pc = "images"
    /\ buildimage' = resolve_image(imageargs.buildflag, imageargs.buildenv,
                                   build_image_default(cmd))
    /\ runtimeimage' =
         IF cmd = "test" THEN <<>>
         ELSE resolve_image(imageargs.runtimeflag, imageargs.runtimeenv,
                            runtime_image_default)
    /\ pc' = "resolved"
    /\ UNCHANGED <<cmd, dirname, cwd, fs, tagArg, tag, dockerUsername, s,
                   podmanoutput, identity, dir, spawned, unspawnable,
                   tmp_docker_file, rerendered, childStdin, stdinClosed,
                   childStdout, warned, imageargs, pipevars>>

\* The images resolved, the program goes on to render; that step is
\* Render's and is left out here.
ImageNext ==
    \/ ResolveImages

ImageSpec == ImageInit /\ [][ImageNext]_vars

(***************************************************************************)
(* The Build Invoker at the level of the pipes: the program and the engine *)
(* child run concurrently from the spawn on, joined by the child's stdin   *)
(* and stdout pipes, each holding at most PipeCap bytes.  A write to a     *)
(* full pipe and a read of an empty, open pipe block.  The build, test and *)
(* release flows hold the same code (main.rs:395-403, 479-487, 572-580).   *)
(* A failed write or read, which panics, is WriteStdin's and ReadStdout's  *)
(* in the specification above and is left out here.                        *)
(***************************************************************************)
\* Dockerfiles: the first bytes of the flow's template.
PipeFiles(c) == {SubSeq(template_of(c), 1, n) : n \in 1..MaxFile}
\* What the child has to say: the first bytes of a build log.
ChildOutputs == {SubSeq(BUILD_LOG, 1, n) : n \in 0..MaxOut}
\* The child consumes all of its input before it produces output
\* ("drain_first"), or may produce output while input is left ("eager").
ChildModes == {"drain_first", "eager"}

\* The state right after the spawn of `docker build <tag> -f- .`.
PipeInit ==
    /\ pc = "write"
    /\ cmd \in BuildCmds
    /\ dirname = <<APP>>
    /\ cwd = dirname
    /\ fs = [p \in {Append(dirname, FUNCTIONS_RS)} |-> <<>>]
    /\ tagArg = Some(USER_TAG)
    /\ tag = DASH_T \o USER_TAG
    /\ dockerUsername = None
    /\ s = <<>>
    /\ podmanoutput = <<>>
    /\ identity = None
    /\ dir = <<>>
    /\ spawned = <<"docker build">>
    /\ unspawnable = {}
    /\ buildimage = build_image_default(cmd)
    /\ runtimeimage = IF cmd = "test" THEN <<>> ELSE runtime_image_default
    /\ imageargs = NoImageArgs
    /\ tmp_docker_file \in PipeFiles(cmd)
    /\ rerendered = <<>>
    /\ childStdin = <<>>
    /\ stdinClosed = FALSE
    /\ childStdout = <<>>
    /\ warned = FALSE
    /\ stdinPipe = <<>>
    /\ written = 0
    /\ stdoutPipe = <<>>
    /\ stdoutClosed = FALSE
    /\ childMode \in ChildModes
    /\ childPhase = "reading"
    /\ childOut \in ChildOutputs

\* A variant of write_all_done: one write call, as Write::write makes,
\* whatever number of bytes it took.
write_done_first(n, text) == n >= 1

\* write_all returns Ok once every byte of the buffer has been written.
write_all_done(n, text) == n = Len(text)

\* A variant of after_match: the ChildStdin is kept, as one bound by a let
\* would be to the end of the block.
after_match_kept(closed) == closed

\* The ChildStdin that process.stdin.unwrap() yields is a temporary of the
\* match's scrutinee: it is dropped, and the pipe's write end closed, when
\* the match statement ends.
after_match(closed) == TRUE

\* A read that returns 0 bytes: nothing in the pipe and its write end closed.
end_of_file(pipe, closed) == pipe = <<>> /\ closed

\* One write call of write_all's loop: it blocks while the pipe is full and
\* then writes some of the bytes that are left.
ParentWrite ==
    /\ pc = "write"
    /\ ~write_all_done(written, tmp_docker_file)
    /\ Len(stdinPipe) < PipeCap
    /\ \E n \in 1..Min({PipeCap - Len(stdinPipe),
                         Len(tmp_docker_file) - written}) :
         /\ stdinPipe' = stdinPipe
                           \o SubSeq(tmp_docker_file, written + 1, written + n)
         /\ written' = written + n
    /\ UNCHANGED <<pc, cmd, dirname, cwd, fs, tagArg, tag, dockerUsername, s,
                   podmanoutput, identity, dir, spawned, unspawnable,
                   buildimage, runtimeimage, tmp_docker_file, rerendered,
                   childStdin, stdinClosed, childStdout, warned, imageargs,
                   stdoutPipe, stdoutClosed, childMode, childPhase, childOut>>

\* write_all has returned Ok: "Sent file" is printed, the match ends and the
\* program goes on to read_to_string.
ParentCloseStdin ==
    /\ pc = "write"
    /\ write_all_done(written, tmp_docker_file)
    /\ stdinClosed' = after_match(stdinClosed)
    /\ pc' = "read"
    /\ UNCHANGED <<cmd, dirname, cwd, fs, tagArg, tag, dockerUsername, s,
                   podmanoutput, identity, dir, spawned, unspawnable,
                   buildimage, runtimeimage, tmp_docker_file, rerendered,
                   childStdin, childStdout, warned, imageargs, pipevars>>

\* One read call of read_to_string's loop: it blocks while the pipe is empty
\* and open, and then takes some of the bytes in the pipe.
ParentRead ==
    /\ pc = "read"
    /\ stdoutPipe # <<>>
    /\ \E n \in 1..Len(stdoutPipe) :
         /\ childStdout' = childStdout \o SubSeq(stdoutPipe, 1, n)
         /\ stdoutPipe' = SubSeq(stdoutPipe, n + 1, Len(stdoutPipe))
    /\ UNCHANGED <<pc, cmd, dirname, cwd, fs, tagArg, tag, dockerUsername, s,
                   podmanoutput, identity, dir, spawned, unspawnable,
                   buildimage, runtimeimage, tmp_docker_file, rerendered,
                   childStdin, stdinClosed, warned, imageargs, stdinPipe,
                   written, stdoutClosed, childMode, childPhase, childOut>>

\* read_to_string meets the end of the child's output and returns Ok:
\* "Build complete" is printed and main returns.
ParentReadEnd ==
    /\ pc = "read"
    /\ end_of_file(stdoutPipe, stdoutClosed)
    /\ pc' = "done"
    /\ UNCHANGED <<cmd, dirname, cwd, fs, tagArg, tag, dockerUsername, s,
                   podmanoutput, identity, dir, spawned, unspawnable,
                   buildimage, runtimeimage, tmp_docker_file, rerendered,
                   childStdin, stdinClosed, childStdout, warned, imageargs,
                   pipevars>>

\* The child reads some of the bytes in its stdin pipe.
ChildRead ==
    /\ childPhase = "reading"
    /\ stdinPipe # <<>>
    /\ \E n \in 1..Len(stdinPipe) :
         /\ childStdin' = childStdin \o SubSeq(stdinPipe, 1, n)
         /\ stdinPipe' = SubSeq(stdinPipe, n + 1, Len(stdinPipe))
    /\ UNCHANGED <<pc, cmd, dirname, cwd, fs, tagArg, tag, dockerUsername, s,
                   podmanoutput, identity, dir, spawned, unspawnable,
                   buildimage, runtimeimage, tmp_docker_file, rerendered,
                   stdinClosed, childStdout, warned, imageargs, written,
                   stdoutPipe, stdoutClosed, childMode, childPhase, childOut>>

\* The child meets the end of its input and turns to its output.
ChildEndOfInput ==
    /\ childPhase = "reading"
    /\ end_of_file(stdinPipe, stdinClosed)
    /\ childPhase' = "writing"
    /\ UNCHANGED <<pc, cmd, dirname, cwd, fs, tagArg, tag, dockerUsername, s,
                   podmanoutput, identity, dir, spawned, unspawnable,
                   buildimage, runtimeimage, tmp_docker_file, rerendered,
                   childStdin, stdinClosed, childStdout, warned, imageargs,
                   stdinPipe, written, stdoutPipe, stdoutClosed, childMode,
                   childOut>>

\* An eager child turns to its output while input may be left.
ChildEager ==
    /\ childMode = "eager"
    /\ childPhase = "reading"
    /\ childOut # <<>>
    /\ childPhase' = "early"
    /\ UNCHANGED <<pc, cmd, dirname, cwd, fs, tagArg, tag, dockerUsername, s,
                   podmanoutput, identity, dir, spawned, unspawnable,
                   buildimage, runtimeimage, tmp_docker_file, rerendered,
                   childStdin, stdinClosed, childStdout, warned, imageargs,
                   stdinPipe, written, stdoutPipe, stdoutClosed, childMode,
                   childOut>>

\* One write call of the child: it blocks while its stdout pipe is full and
\* then writes some of the output that is left.
ChildWrite ==
    /\ childPhase \in {"early", "writing"}
    /\ childOut # <<>>
    /\ Len(stdoutPipe) < PipeCap
    /\ \E n \in 1..Min({PipeCap - Len(stdoutPipe), Len(childOut)}) :
         /\ stdoutPipe' = stdoutPipe \o SubSeq(childOut, 1, n)
         /\ childOut' = SubSeq(childOut, n + 1, Len(childOut))
    /\ UNCHANGED <<pc, cmd, dirname, cwd, fs, tagArg, tag, dockerUsername, s,
                   podmanoutput, identity, dir, spawned, unspawnable,
                   buildimage, runtimeimage, tmp_docker_file, rerendered,
                   childStdin, stdinClosed, childStdout, warned, imageargs,
                   stdinPipe, written, stdoutClosed, childMode, childPhase>>

\* An eager child that has written its output goes back to its input.
ChildResume ==
    /\ childPhase = "early"
    /\ childOut = <<>>
    /\ childPhase' = "reading"
    /\ UNCHANGED <<pc, cmd, dirname, cwd, fs, tagArg, tag, dockerUsername, s,
                   podmanoutput, identity, dir, spawned, unspawnable,
                   buildimage, runtimeimage, tmp_docker_file, rerendered,
                   childStdin, stdinClosed, childStdout, warned, imageargs,
                   stdinPipe, written, stdoutPipe, stdoutClosed, childMode,
                   childOut>>

\* The child has consumed its input and written its output: it exits, and
\* its stdout is closed.
ChildClose ==
    /\ childPhase = "writing"
    /\ childOut = <<>>
    /\ stdoutClosed' = TRUE
    /\ childPhase' = "closed"
    /\ UNCHANGED <<pc, cmd, dirname, cwd, fs, tagArg, tag, dockerUsername, s,
                   podmanoutput, identity, dir, spawned, unspawnable,
                   buildimage, runtimeimage, tmp_docker_file, rerendered,
                   childStdin, stdinClosed, childStdout, warned, imageargs,
                   stdinPipe, written, stdoutPipe, childMode, childOut>>

Parent ==
    \/ ParentWrite
    \/ ParentCloseStdin
    \/ ParentRead
    \/ ParentReadEnd

Child ==
    \/ ChildRead
    \/ ChildEndOfInput
    \/ ChildEager
    \/ ChildWrite
    \/ ChildResume
    \/ ChildClose

PipeNext ==
    \/ Parent
    \/ Child

PipeSpec == PipeInit /\ [][PipeNext]_vars

\* The two processes are scheduled by the operating system: a system call
\* that can return does return, and a process that can run does run.  An
\* eager child's early turn to its output is a choice, not an obligation.
PipeFairness ==
    /\ WF_vars(ParentWrite)
    /\ WF_vars(ParentCloseStdin)
    /\ WF_vars(ParentRead)
    /\ WF_vars(ParentReadEnd)
    /\ WF_vars(ChildRead)
    /\ WF_vars(ChildEndOfInput)
    /\ WF_vars(ChildWrite)
    /\ WF_vars(ChildResume)
    /\ WF_vars(ChildClose)

PipeFairSpec == PipeInit /\ [][PipeNext]_vars /\ PipeFairness
(***************************************************************************)
(* Vocabulary of the properties, stated on the state and not through the   *)
(* program's own text conversions.                                         *)
(***************************************************************************)
Range(f) == {f[i] : i \in DOMAIN f}

\* The prefix of each flow's synthesized tag.
KindPrefix(c) ==
    CASE c = "build" -> <<"d", "e", "v", "-">>
      [] c = "test" -> <<"t", "e", "s", "t", "-">>
      [] c = "release" -> <<>>

\* The label of a directory given by its segments: the final segment, or
\* the one before it when the final one is src; a segment that does not
\* exist (the root's own, or the parent of a depth-one src) is empty.
SegmentAt(segs, k) == IF k >= 1 /\ k <= Len(segs) THEN segs[k] ELSE <<>>
SegmentLabel(segs) ==
    IF SegmentAt(segs, Len(segs)) = SRC
    THEN SegmentAt(segs, Len(segs) - 1)
    ELSE SegmentAt(segs, Len(segs))

\* The tag is resolved: the flow has reached or passed its rendering.
TagResolved == cmd \in BuildCmds /\ (pc = "render" \/ tmp_docker_file # <<>>)

\* No tag was supplied (or an empty one), so the tag is synthesized.
TagOmitted == unwrap_or(tagArg, <<>>) = <<>>

\* The engine build process has been spawned.
BuildSpawned == "docker build" \in Range(spawned)

\* The files of the invocation, by their segments.
FunctionsHere == Append(dirname, FUNCTIONS_RS) \in DOMAIN fs
FunctionsInSrc == dirname \o <<SRC, FUNCTIONS_RS>> \in DOMAIN fs
LocatedDir == IF FunctionsHere THEN dirname ELSE Append(dirname, SRC)
EnvPresent == Append(cwd, ENV_FILE) \in DOMAIN fs
LibPresent == Append(cwd, LIB_RS_FILE) \in DOMAIN fs
DockerfilePath == Append(cwd, DOCKERFILE)

\* The marker tokens of the templates.
ImageMarkers ==
    {M_DEV_BASE_IMAGE, M_TEST_BASE_IMAGE, M_BASE_IMAGE, M_RUNTIME_IMAGE,
     M_INCLUDE_ENV}
CommentMarkers == {M_ENV, M_LIB_RS, M_TEST}
Markers == ImageMarkers \cup CommentMarkers
MarkerFree(text) == \A m \in Markers : ~Contains(text, m)

\* The Dockerfile text has just left the program: the engine was sent it
\* (and nothing is sent after that), or the gen flow wrote it.
TextHandedOver ==
    \/ cmd \in BuildCmds /\ pc = "read"
    \/ cmd = "gen" /\ pc = "done" /\ ~warned
HandedText == IF cmd = "gen" THEN fs[DockerfilePath] ELSE childStdin

\* The first line of an engine's output: the text before its first newline.
FirstLine(out) ==
    LET nls == {i \in 1..Len(out) : out[i] = "\n"}
    IN  IF nls = {} THEN out ELSE SubSeq(out, 1, Min(nls) - 1)

IsProbe(c) == c \in {"docker info", "podman login --get-login"}
PodmanQueried == "podman login --get-login" \in Range(spawned)

(***************************************************************************)
(* Properties.                                                             *)
(***************************************************************************)
\* C1: in the build, test and release flows invoked without a tag, the
\* synthesized tag is "<identity>/<prefix><base label>" when the identity
\* resolver returned an identity and "<prefix><base label>" when it
\* returned none, the prefixes being "dev-", "test-" and "".
C1_SynthesizedTag ==
    (TagResolved /\ TagOmitted) =>
        tag = DASH_T \o
              (IF IsSome(identity)
               THEN identity[1] \o <<"/">> \o KindPrefix(cmd) \o SegmentLabel(cwd)
               ELSE KindPrefix(cmd) \o SegmentLabel(cwd))

\* "-talice/dev-myapp"
EXAMPLE_TAG ==
    <<"-", "t", "a", "l", "i", "c", "e", "/", "d", "e", "v", "-", "m", "y", "a",
    "p", "p">>


\* C1 witness: build in /myapp with identity alice ran to its end with the
\* tag alice/dev-myapp.
C1_Witness ==
    /\ cmd = "build"
    /\ pc = "done"
    /\ cwd = <<APP>>
    /\ tagArg = None
    /\ identity = Some(ALICE)
    /\ tag = EXAMPLE_TAG

\* C2: whenever the engine build has been spawned, the tag value after
\* "-t" is not empty.
C2_TagNeverEmpty == BuildSpawned => Len(tag) > Len(DASH_T)

\* C3, as claimed: no marker token remains in the Dockerfile text handed to
\* the engine or written to disk.
C3_NoMarkerRemains == TextHandedOver => MarkerFree(HandedText)

\* C3, amended: with image values that hold no marker, no image marker and
\* no INCLUDE_ENV remains in the text handed over; the comment markers stay
\* where their file is absent: in the release and gen flows #LIB_RS and
\* #TEST remain exactly when lib.rs is absent and #ENV exactly when .env is
\* absent.
C3_MarkersAfterRender ==
    (TextHandedOver /\ MarkerFree(buildimage) /\ MarkerFree(runtimeimage)) =>
        /\ \A m \in ImageMarkers : ~Contains(HandedText, m)
        /\ cmd \in {"release", "gen"} =>
             /\ Contains(HandedText, M_LIB_RS) <=> ~LibPresent
             /\ Contains(HandedText, M_TEST) <=> ~LibPresent
             /\ Contains(HandedText, M_ENV) <=> ~EnvPresent

\* C3 witness: a release without lib.rs and .env sent its Dockerfile to the
\* engine.
C3_Witness ==
    /\ cmd = "release"
    /\ pc = "read"
    /\ ~LibPresent
    /\ ~EnvPresent
    /\ Contains(childStdin, M_LIB_RS)

\* C4: the gen flow never overwrites a Dockerfile: when one exists the file
\* system is left as it was, the warning is printed and the process ends
\* with success; the file is written, with the rendered text, only when it
\* did not exist.
C4_GenNeverOverwrites ==
    [][(cmd = "gen" /\ pc = "main") =>
          IF DockerfilePath \in DOMAIN fs
          THEN fs' = fs /\ warned' /\ pc' = "done"
          ELSE /\ ~warned'
               /\ pc' = "done" =>
                    /\ DOMAIN fs' = DOMAIN fs \cup {DockerfilePath}
                    /\ fs'[DockerfilePath] = tmp_docker_file'
                    /\ \A p \in DOMAIN fs : fs'[p] = fs[p]]_vars

\* C4 witness: gen ended with success next to the user's own Dockerfile.
C4_Witness ==
    /\ cmd = "gen"
    /\ pc = "done"
    /\ warned
    /\ fs[DockerfilePath] = OLD_CONTENT

\* C5: in the build, test and release flows, when functions.rs is in
\* neither the directory nor its src (or, in the test flow, lib.rs is not
\* in the located directory), the process exits non-zero and no engine
\* process is ever spawned.
C5_NoEntrypointNoSpawn ==
    (/\ cmd \in BuildCmds
     /\ pc # "main"
     /\ \/ ~FunctionsHere /\ ~FunctionsInSrc
        \/ cmd = "test" /\ Append(LocatedDir, LIB_RS_FILE) \notin DOMAIN fs) =>
        /\ pc = "exit1"
        /\ ExitStatus = 1
        /\ spawned = <<>>
        /\ unspawnable = {}

\* C5 witness: a test flow found functions.rs under src, and no lib.rs
\* there although the original directory has one.
C5_Witness ==
    /\ cmd = "test"
    /\ pc = "exit1"
    /\ ~FunctionsHere
    /\ FunctionsInSrc
    /\ Append(dirname, LIB_RS_FILE) \in DOMAIN fs
    /\ dirname \o <<SRC, LIB_RS_FILE>> \notin DOMAIN fs

\* C6: the identity resolver asks the environment override, then docker
\* info, then podman login: podman is queried only when the override is
\* absent and docker's output names no user, its answer is the first line of
\* its output, and the resolver returns None only when both engines were
\* spawned and neither reported an identity.
C6_ResolverOrder ==
    /\ SelectSeq(spawned, IsProbe) \in
         {<<>>, <<"docker info">>, <<"docker info", "podman login --get-login">>}
    /\ IsSome(dockerUsername) => SelectSeq(spawned, IsProbe) = <<>>
    /\ pc = "getpodmanlogin" =>
         /\ dockerUsername = None
         /\ spawned = <<"docker info">>
         /\ ~Contains(s, USERNAME_MARK)
    /\ (pc = "login_ret" /\ PodmanQueried) =>
         /\ ~Contains(s, USERNAME_MARK)
         /\ identity = IF FirstLine(podmanoutput) = <<>> THEN None
                       ELSE Some(FirstLine(podmanoutput))
    /\ (pc = "login_ret" /\ identity = None) =>
         /\ spawned = <<"docker info", "podman login --get-login">>
         /\ unspawnable = {}
         /\ ~Contains(s, USERNAME_MARK)
         /\ FirstLine(podmanoutput) = <<>>

\* C6 witness: docker named no user and podman's first line gave bob,
\* with more lines after it.
C6_Witness ==
    /\ pc = "login_ret"
    /\ spawned = <<"docker info", "podman login --get-login">>
    /\ identity = Some(BOB)
    /\ Len(podmanoutput) > Len(BOB) + 1

\* C7: during identity resolution only a spawn failure of the last
\* provider, podman, ends the process: when docker cannot be spawned the
\* resolution goes on to podman.
C7_OnlyLastProviderFatal ==
    (pc = "exit1" /\ tag = DASH_T /\ tmp_docker_file = <<>>) =>
        "podman login --get-login" \in unspawnable

\* C8: the base label of tag synthesis is the final segment of the working
\* directory at synthesis time, or the segment before it when the final one
\* is src, for every working directory (the root has an empty segment).
C8_BaseLabel ==
    (cmd \in BuildCmds /\ pc \in {"getdockerlogin", "getpodmanlogin", "login_ret"}) =>
        dir = SegmentLabel(cwd)

\* C8 witness: synthesis runs in the src directory the locator moved to,
\* and the label is the project directory's name.
C8_Witness ==
    /\ pc = "login_ret"
    /\ dirname = <<APP>>
    /\ cwd = <<APP, SRC>>
    /\ dir = APP

\* C9: with a non-empty --tag the tag passed to the engine is "-t" and that
\* value, the identity resolver is not invoked, no identity probe is
\* spawned, and the build is the only engine process of the invocation.
C9_UserTagNoSynthesis ==
    (cmd \in BuildCmds /\ IsSome(tagArg) /\ tagArg # Some(<<>>)) =>
        /\ tag = DASH_T \o tagArg[1]
        /\ identity = None
        /\ dockerUsername = None
        /\ spawned \in {<<>>, <<"docker build">>}
        /\ unspawnable \subseteq {"docker build"}
        /\ pc \in {"write", "read", "done"} => spawned = <<"docker build">>

\* C9 witness: a build with --tag me/x ran to its end.
C9_Witness ==
    /\ cmd \in BuildCmds
    /\ pc = "done"
    /\ tagArg = Some(USER_TAG)
    /\ spawned = <<"docker build">>

\* C10, as claimed: for every flow, image and file presence, the flow's
\* substitutions applied to the rendered text leave it as it is.
C10_Idempotent == pc = "rerendered" => rerendered = tmp_docker_file

\* C10, amended: rendering is idempotent when no marker token occurs in the
\* image values.
C10_IdempotentMarkerFree ==
    (pc = "rerendered" /\ MarkerFree(buildimage) /\ MarkerFree(runtimeimage)) =>
        rerendered = tmp_docker_file

\* C10 witness: a release text with lib.rs and .env present, rendered twice
\* from ordinary images.
C10_Witness ==
    /\ pc = "rerendered"
    /\ cmd = "release"
    /\ LibPresent
    /\ EnvPresent
    /\ buildimage = FLAG_IMAGE
    /\ MarkerFree(runtimeimage)
    /\ Contains(rerendered, R_ENV)

\* C11: the build image and the runtime image that are substituted into the
\* template are never the empty string and are chosen by priority: the
\* flag's value if the flag is given, else the environment variable's value
\* if it is set, else the hard-coded default; for every combination of flag
\* given or omitted and variable set to any value or unset.
ByPriority(flag, envvar, default) ==
    IF flag # None THEN flag[1]
    ELSE IF envvar # None THEN envvar[1]
    ELSE default
ImagesResolved == pc = "resolved"
C11_ImagesNonEmptyByPriority ==
    ImagesResolved =>
        /\ buildimage # <<>>
        /\ buildimage = ByPriority(imageargs.buildflag, imageargs.buildenv,
                                   build_image_default(cmd))
        /\ cmd # "test" =>
              /\ runtimeimage # <<>>
              /\ runtimeimage = ByPriority(imageargs.runtimeflag,
                                           imageargs.runtimeenv,
                                           runtime_image_default)

\* C12: in each of the build, test and release flows, once the engine
\* build is spawned the whole rendered Dockerfile is written to the child's
\* stdin and that stream is closed before the program first reads the
\* child's stdout; the output is then read to its end: the program is done
\* only when the child has closed its stdout and nothing of its output is
\* left unread.
Reading == pc \in {"read", "done"} \/ childStdout # <<>>
C12_WrittenAndClosedBeforeRead ==
    /\ Reading =>
          /\ written = Len(tmp_docker_file)
          /\ childStdin \o stdinPipe = tmp_docker_file
          /\ stdinClosed
    /\ pc = "done" =>
          /\ stdoutClosed
          /\ stdoutPipe = <<>>
          /\ childOut = <<>>
          /\ childStdout \in ChildOutputs
C12_Witness ==
    /\ pc = "done"
    /\ cmd = "release"
    /\ Len(tmp_docker_file) > PipeCap
    /\ Len(childStdout) > PipeCap

\* C13: with bounded pipe buffers, if the engine child consumes all of its
\* input before it produces any output and then closes its output, every
\* build invocation that spawned the child eventually finishes reading and
\* ends; and the program is blocked writing the Dockerfile while the child
\* is blocked writing its output only when the child is one that does not
\* keep to that order and has turned to its output early.
ParentBlockedWriting ==
    /\ pc = "write"
    /\ written < Len(tmp_docker_file)
    /\ Len(stdinPipe) = PipeCap
ChildBlockedWriting ==
    /\ childPhase \in {"early", "writing"}
    /\ childOut # <<>>
    /\ Len(stdoutPipe) = PipeCap
MutualBlock == ParentBlockedWriting /\ ChildBlockedWriting
DrainFirst == childMode = "drain_first"
C13_DrainFirstEnds ==
    /\ (DrainFirst /\ BuildSpawned) ~> (pc = "done")
    /\ [](MutualBlock => ~DrainFirst /\ childPhase = "early")
C13_Witness ==
    /\ pc = "done"
    /\ DrainFirst
    /\ cmd = "build"
    /\ Len(childStdin) > PipeCap
    /\ Len(childStdout) > PipeCap

\* C14: after the Workspace Locator of the build, test and release flows
\* has found functions.rs, the working directory is the original one if
\* functions.rs is there (also when src holds one too), and is the original
\* directory's src exactly when functions.rs is not in the original
\* directory and is under src; the test flow's lib.rs check, the .env and
\* lib.rs lookups of the rendering and the base label of a synthesized tag
\* are all taken in that directory: the rendered text includes .env, and in
\* the release flow copies lib.rs, exactly when that directory holds the
\* file (the text is looked at when it has just been rendered; it does not
\* change afterwards).
LocatorSucceeded ==
    /\ cmd \in BuildCmds
    /\ pc # "main"
    /\ FunctionsHere \/ FunctionsInSrc
TagRead == tag # <<>>
\* What the flow's rendering puts into the text when it finds .env.
EnvIncluded == IF cmd = "release" THEN R_ENV ELSE R_INCLUDE_ENV
C14_ProbesInLocatedDirectory ==
    LocatorSucceeded =>
        /\ FunctionsHere => cwd = dirname
        /\ cwd = Append(dirname, SRC) <=> (~FunctionsHere /\ FunctionsInSrc)
        /\ (cmd = "test" /\ (pc = "tag" \/ TagRead)) =>
              Append(LocatedDir, LIB_RS_FILE) \in DOMAIN fs
        /\ (TagRead /\ TagOmitted) => dir = SegmentLabel(LocatedDir)
        /\ pc = "spawn" =>
              /\ Contains(tmp_docker_file, EnvIncluded) <=>
                    Append(LocatedDir, ENV_FILE) \in DOMAIN fs
              /\ cmd = "release" =>
                    (Contains(tmp_docker_file, R_LIB_RS) <=>
                       Append(LocatedDir, LIB_RS_FILE) \in DOMAIN fs)

\* C14 witness: a release flow that found functions.rs only under src and
\* moved there; the original directory holds lib.rs and no .env, src holds
\* .env and no lib.rs, and the Dockerfile sent to the engine copies .env and
\* keeps the #LIB_RS comment.
C14_Witness ==
    /\ cmd = "release"
    /\ pc = "read"
    /\ ~FunctionsHere
    /\ FunctionsInSrc
    /\ cwd = Append(dirname, SRC)
    /\ Append(dirname, LIB_RS_FILE) \in DOMAIN fs
    /\ Append(dirname, ENV_FILE) \notin DOMAIN fs
    /\ dirname \o <<SRC, LIB_RS_FILE>> \notin DOMAIN fs
    /\ dirname \o <<SRC, ENV_FILE>> \in DOMAIN fs
    /\ TagOmitted
    /\ dir = SegmentLabel(dirname)
    /\ Contains(childStdin, R_ENV)
    /\ Contains(childStdin, M_LIB_RS)

\* C15, as claimed: for the same build image, runtime image, .env presence
\* and lib.rs presence, the release flow and the gen flow make the same
\* Dockerfile text from the release template: the text either flow has
\* rendered is the text the other flow's order of substitutions gives.
OtherFlowText ==
    IF cmd = "gen"
    THEN render_release(RELEASE_BUILD, buildimage, runtimeimage,
                        LibPresent, EnvPresent)
    ELSE render_gen(RELEASE_BUILD, buildimage, runtimeimage,
                    LibPresent, EnvPresent)
ReleaseTextRendered == cmd \in {"release", "gen"} /\ pc = "rendered"
C15_ReleaseGenSameText == ReleaseTextRendered => tmp_docker_file = OtherFlowText

\* C15, amended: the two flows make the same text when the runtime image
\* holds none of #LIB_RS, #TEST and #ENV and the build image does not hold
\* RUNTIME_IMAGE.
C15_SameTextPlainRuntime ==
    (/\ ReleaseTextRendered
     /\ \A c \in CommentMarkers : ~Contains(runtimeimage, c)
     /\ ~Contains(buildimage, M_RUNTIME_IMAGE)) =>
        tmp_docker_file = OtherFlowText

\* C15 witness: the gen flow's text with lib.rs and .env present, a build
\* image whose tag is the text of a marker and an ordinary runtime image.
C15_Witness ==
    /\ pc = "rendered"
    /\ cmd = "gen"
    /\ LibPresent
    /\ EnvPresent
    /\ buildimage = MARKER_IMAGE
    /\ runtimeimage = FLAG_IMAGE
    /\ Contains(tmp_docker_file, R_LIB_RS)
    /\ Contains(tmp_docker_file, FLAG_IMAGE)
====
